---------------------------- MODULE Spec2Model ----------------------------
(***************************************************************************)
(* FunctionToPiecewise (src/src/FunctionToPiecewise.h): a piecewise-linear *)
(* approximation of a float function, with a forward table (x -> y) and an *)
(* inverse table (y -> x), both built by the constructor and then queried  *)
(* by xToy and yTox.                                                       *)
(*                                                                         *)
(* Every value of the program is a C++ float.  The model computes with     *)
(* IEEE-754 binary32 values, round to nearest even, one rounding per       *)
(* operation (no fused multiply-add, no excess precision).  A float is a   *)
(* record [c, s, e, m]: class c ("fin", "inf", "nan"), sign s (0 or 1),    *)
(* and for a finite value the magnitude m * 2^e, with m < 2^24, normalised *)
(* (m >= 2^23) unless e = EMin.                                            *)
(*                                                                         *)
(* Intermediate values are passed as operator arguments rather than named  *)
(* in LET, so that each is written, and evaluated, once.                   *)
(***************************************************************************)
EXTENDS Integers, Sequences, FiniteSets, TLC

\* ------------------------------------------------------------ binary32

\* Significand bits of a float (23 stored, one implied).
Precision == 24
\* Exponent of the least significant bit of the smallest subnormal.
EMin == -149
\* Exponent of the least significant bit of the largest finite float.
EMax == 104

Max(a, b) == IF a >= b THEN a ELSE b
Min(a, b) == IF a <= b THEN a ELSE b

Fin(s, e, m) == [c |-> "fin", s |-> s, e |-> e, m |-> m]
Zero(s) == Fin(s, EMin, 0)
Inf(s) == [c |-> "inf", s |-> s, e |-> 0, m |-> 0]
NaN == [c |-> "nan", s |-> 0, e |-> 0, m |-> 0]

IsNaN(a) == a.c = "nan"
IsInf(a) == a.c = "inf"
IsFin(a) == a.c = "fin"
IsZero(a) == a.c = "fin" /\ a.m = 0

\* Number of bits of M, 0 < M < 2^30.
BitLen(M) == CHOOSE L \in 1..30 : M < 2^L /\ M >= 2^(L - 1)

\* A rounded significand m1 <= 2^Precision at exponent e.
PackRounded(s, e, m1) ==
    IF m1 = 0 THEN Zero(s)
    ELSE IF m1 = 2^Precision
         THEN (IF e + 1 > EMax THEN Inf(s) ELSE Fin(s, e + 1, 2^(Precision - 1)))
    ELSE IF e > EMax THEN Inf(s)
    ELSE Fin(s, e, m1)

\* Quotient q and remainder r of the significand by 2 * half: round to
\* nearest, ties to even.
RoundQR(s, e, q, r, half, sticky) ==
    PackRounded(s, e, IF r > half \/ (r = half /\ (sticky \/ q % 2 = 1))
                      THEN q + 1 ELSE q)

\* An exactly representable M * 2^E, shifted up by k bits.
PackExact(s, M, E, k) ==
    IF E - k > EMax THEN Inf(s) ELSE Fin(s, E - k, M * 2^k)

\* M has L bits and loses its sh low bits (sh <= 0: none).
RoundShift(s, M, E, sticky, L, sh) ==
    IF sh <= 0 THEN PackExact(s, M, E, Min(Precision - L, E - EMin))
    ELSE IF sh > L THEN Zero(s)
    ELSE RoundQR(s, E + sh, M \div 2^sh, M % 2^sh, 2^(sh - 1), sticky)

RoundBits(s, M, E, sticky, L) ==
    RoundShift(s, M, E, sticky, L, Max(L - Precision, EMin - E))

\* The float nearest to (-1)^s * (M + t) * 2^E, where 0 <= t < 1 and
\* sticky says t > 0; ties go to the even significand.  When sticky holds M
\* has at least Precision + 1 bits.
RoundPack(s, M, E, sticky) ==
    IF M = 0 THEN Zero(s) ELSE RoundBits(s, M, E, sticky, BitLen(M))

\* int -> float conversion, |i| < 2^30.
IntToFloat(i) == RoundPack(IF i < 0 THEN 1 ELSE 0, IF i < 0 THEN -i ELSE i, 0, FALSE)

FNeg(a) == IF IsNaN(a) THEN a ELSE [a EXCEPT !.s = 1 - a.s]

NormShift(a, k) == [e |-> a.e - k, m |-> a.m * 2^k]

\* A finite nonzero float with its significand shifted up to Precision bits
\* (the exponent may then lie below EMin).
Normalised(a) == NormShift(a, Precision - BitLen(a.m))

\* |a| < |b| for finite a, b.
MagLt(a, b) == a.e < b.e \/ (a.e = b.e /\ a.m < b.m)

\* Ma >= Mb are the aligned significands of the operands with signs sa, sb.
AddMant(sa, sb, Ma, Mb, E) ==
    IF sa # sb /\ Ma = Mb THEN Zero(0)
    ELSE RoundPack(sa, IF sa = sb THEN Ma + Mb ELSE Ma - Mb, E, FALSE)

\* t with its lowest bit set when the bits shifted out were not all zero.
JamBit(t, rem) == IF rem # 0 /\ t % 2 = 0 THEN t + 1 ELSE t

Jam(m, shr) ==
    IF shr >= Precision THEN 1 ELSE JamBit(m \div 2^shr, m % 2^shr)

\* The operand of larger magnitude keeps three extra low-order bits (guard,
\* round and sticky) when the other one is shifted down to its exponent.
AddAligned(a, b, d) ==
    IF d <= 3
    THEN AddMant(a.s, b.s, a.m * 2^d, b.m, b.e)
    ELSE AddMant(a.s, b.s, a.m * 8, Jam(b.m, d - 3), a.e - 3)

\* a + b for finite a, b, neither zero, |a| >= |b|.
AddOrdered(a, b) == AddAligned(a, b, a.e - b.e)

FAdd(a, b) ==
    IF IsNaN(a) \/ IsNaN(b) THEN NaN
    ELSE IF IsInf(a) THEN (IF IsInf(b) /\ a.s # b.s THEN NaN ELSE a)
    ELSE IF IsInf(b) THEN b
    ELSE IF IsZero(a) /\ IsZero(b) THEN Zero(IF a.s = 1 /\ b.s = 1 THEN 1 ELSE 0)
    ELSE IF IsZero(a) THEN b
    ELSE IF IsZero(b) THEN a
    ELSE AddOrdered(IF MagLt(a, b) THEN b ELSE a, IF MagLt(a, b) THEN a ELSE b)

FSub(a, b) == FAdd(a, FNeg(b))

\* hh * 2^24 + mid * 2^12 + t - (mid % 2^12) * 2^12 is the 48-bit product.
MulSum(s, E, hh, mid, t) ==
    RoundPack(s, (hh + mid \div 4096 + t \div 2^24) * 4 + (t % 2^24) \div 2^22,
              E, (t % 2^24) % 2^22 # 0)

MulParts(s, E, ah, al, bh, bl) ==
    MulSum(s, E, ah * bh, ah * bl + al * bh,
           ((ah * bl + al * bh) % 4096) * 4096 + al * bl)

MulNorm(s, na, nb) ==
    MulParts(s, na.e + nb.e + 22, na.m \div 4096, na.m % 4096,
             nb.m \div 4096, nb.m % 4096)

FMul(a, b) ==
    IF IsNaN(a) \/ IsNaN(b) THEN NaN
    ELSE IF IsInf(a) \/ IsInf(b)
         THEN (IF IsZero(a) \/ IsZero(b) THEN NaN ELSE Inf(IF a.s = b.s THEN 0 ELSE 1))
    ELSE IF IsZero(a) \/ IsZero(b) THEN Zero(IF a.s = b.s THEN 0 ELSE 1)
    ELSE MulNorm(IF a.s = b.s THEN 0 ELSE 1, Normalised(a), Normalised(b))

\* Long division by d, seven quotient bits a step, n steps to go.
RECURSIVE DivDigits(_, _, _, _, _, _)
DivDigits(s, E, d, Q, r, n) ==
    IF n = 0 THEN RoundPack(s, Q, E, r # 0)
    ELSE DivDigits(s, E, d, Q * 128 + (r * 128) \div d, (r * 128) % d, n - 1)

DivNorm(s, na, nb) ==
    DivDigits(s, na.e - nb.e - 28, nb.m, na.m \div nb.m, na.m % nb.m, 4)

FDiv(a, b) ==
    IF IsNaN(a) \/ IsNaN(b) THEN NaN
    ELSE IF IsInf(a) THEN (IF IsInf(b) THEN NaN ELSE Inf(IF a.s = b.s THEN 0 ELSE 1))
    ELSE IF IsInf(b) THEN Zero(IF a.s = b.s THEN 0 ELSE 1)
    ELSE IF IsZero(b)
         THEN (IF IsZero(a) THEN NaN ELSE Inf(IF a.s = b.s THEN 0 ELSE 1))
    ELSE IF IsZero(a) THEN Zero(IF a.s = b.s THEN 0 ELSE 1)
    ELSE DivNorm(IF a.s = b.s THEN 0 ELSE 1, Normalised(a), Normalised(b))

\* a < b on values that are not NaN and not both zero.
OrderedLt(a, b) ==
    IF a.s # b.s THEN a.s = 1
    ELSE IF a.s = 0
         THEN (IF IsInf(a) THEN FALSE ELSE IF IsInf(b) THEN TRUE ELSE MagLt(a, b))
    ELSE (IF IsInf(b) THEN FALSE ELSE IF IsInf(a) THEN TRUE ELSE MagLt(b, a))

\* a < b, a == b as C++ compares floats: false when either is NaN, and the
\* two zeros are equal.
FLt(a, b) ==
    IF IsNaN(a) \/ IsNaN(b) THEN FALSE
    ELSE IF IsZero(a) /\ IsZero(b) THEN FALSE
    ELSE OrderedLt(a, b)

FEq(a, b) ==
    IF IsNaN(a) \/ IsNaN(b) THEN FALSE
    ELSE (IsZero(a) /\ IsZero(b)) \/ a = b

FGt(a, b) == FLt(b, a)
FLe(a, b) == FLt(a, b) \/ FEq(a, b)
FGe(a, b) == FLe(b, a)

\* ------------------------------------------------- model bounds and inputs

\* Largest segment count passed to the constructor (the smallest is -1).
MaxSegments == 3
\* Interval end points are the integers -1 .. MaxEnd.
MaxEnd == 5
\* Linear source functions m*x + b have |m| <= MaxSlope, 0 <= b <= MaxIntercept.
MaxSlope == 3
MaxIntercept == 1

\* The source functions handed to the constructor: Func1 of test.cpp, the
\* linear functions m*x + b, and the square x*x (not monotonic across 0).
Functions ==
    {[k |-> "Func1", m |-> 2, b |-> 0], [k |-> "sq", m |-> 0, b |-> 0]}
    \cup {[k |-> "lin", m |-> m, b |-> b] :
             m \in -MaxSlope..MaxSlope, b \in 0..MaxIntercept}

\* float Func1(float _x)
Func1(x) == FMul(IntToFloat(2), x)

\* (*function)(x)
Apply(fn, x) ==
    CASE fn.k = "Func1" -> Func1(x)
      [] fn.k = "lin" -> FAdd(FMul(IntToFloat(fn.m), x), IntToFloat(fn.b))
      [] fn.k = "sq" -> FMul(x, x)

EndPoints == {IntToFloat(i) : i \in -1..MaxEnd}

\* ------------------------------------------------------------ the class

VARIABLES
    pc,                \* "new", "ready", "halted" (mbed error), "diverged"
    originalFunciton,  \* the function passed to the constructor
    nSegments,         \* _nSegments
    interval,          \* _interval, <<first, second>>
    f_of_x_fns,        \* std::map in key order: [first, second, slope, yint]
    f_of_y_fns,
    call               \* the query whose result the caller holds:
                       \* [op, arg, err, ret, via, from]

vars == <<pc, originalFunciton, nSegments, interval, f_of_x_fns, f_of_y_fns, call>>

\* One element of a table: the key pair and the LineFunc.
Entry(k1, k2, slope, yint) ==
    [first |-> k1, second |-> k2, slope |-> slope, yint |-> yint]

Point(x, y) == [x |-> x, y |-> y]

\* Mutant of getLineFuncSlope: the rise is taken the wrong way round.
getLineFuncSlopeSwapped(pt1, pt2) == FDiv(FSub(pt1.y, pt2.y), FSub(pt2.x, pt1.x))

getLineFuncSlope(pt1, pt2) == FDiv(FSub(pt2.y, pt1.y), FSub(pt2.x, pt1.x))

getLineFuncYInt(pt1, pt2) == FSub(pt1.y, FMul(getLineFuncSlope(pt1, pt2), pt1.x))

evalLinearFunction(x, line) == FAdd(FMul(line.slope, x), line.yint)

\* std::pair<float, float>::operator<
KeyLt(a, b) ==
    FLt(a.first, b.first) \/ (~FLt(b.first, a.first) /\ FLt(a.second, b.second))

InsertAt(map, en, n) == SubSeq(map, 1, n) \o <<en>> \o SubSeq(map, n + 1, Len(map))

\* std::map::insert: nothing happens when an equivalent key is present.
MapInsert(map, en) ==
    IF \E i \in 1..Len(map) : ~KeyLt(map[i], en) /\ ~KeyLt(en, map[i])
    THEN map
    ELSE InsertAt(map, en, Cardinality({i \in 1..Len(map) : KeyLt(map[i], en)}))

xIncrement(iv, n) == FDiv(FSub(iv[2], iv[1]), IntToFloat(n))

\* The forward segment of the slice between two sample points.
ForwardEntry(tempPt1, tempPt2) ==
    Entry(tempPt1.x, tempPt2.x, getLineFuncSlope(tempPt1, tempPt2),
          getLineFuncYInt(tempPt1, tempPt2))

\* The first loop of the constructor from loop variable x on.  done is FALSE
\* when the loop cannot end: x + xIncrement <= x, so that x never reaches
\* the upper end.
RECURSIVE ForwardLoop(_, _, _, _, _)
ForwardStep(fn, x, x2, hi, inc, map) ==
    IF FLe(x2, x) THEN [done |-> FALSE, map |-> <<>>]
    ELSE ForwardLoop(fn, x2, hi, inc,
                     MapInsert(map, ForwardEntry(Point(x, Apply(fn, x)),
                                                 Point(x2, Apply(fn, x2)))))

ForwardLoop(fn, x, hi, inc, map) ==
    IF ~FLt(x, hi) THEN [done |-> TRUE, map |-> map]
    ELSE ForwardStep(fn, x, FAdd(x, inc), hi, inc, map)

\* Mutant of InverseLine: the slope m is stored instead of 1/m.
InverseLineNotInverted(tempPt1, tempPt2) ==
    [slope |-> getLineFuncSlope(tempPt1, tempPt2),
     yint |-> FDiv(FMul(IntToFloat(-1), getLineFuncYInt(tempPt1, tempPt2)),
                   getLineFuncSlope(tempPt1, tempPt2))]

\* The LineFunc of the inverse segment: 1/m and -b/m.
InverseLine(tempPt1, tempPt2) ==
    [slope |-> FDiv(IntToFloat(1), getLineFuncSlope(tempPt1, tempPt2)),
     yint |-> FDiv(FMul(IntToFloat(-1), getLineFuncYInt(tempPt1, tempPt2)),
                   getLineFuncSlope(tempPt1, tempPt2))]

\* Mutant of InverseKey: the two samples are not put in order.
InverseKeyUnordered(y1, y2) ==
    IF FGt(y1, y2) \/ FGt(y2, y1) THEN <<y1, y2>> ELSE <<Zero(0), Zero(0)>>

\* tempSubInterval of the second loop: a std::pair constructed afresh in
\* every iteration, so (0, 0) unless one of the two comparisons assigns it.
InverseKey(y1, y2) ==
    IF FGt(y1, y2) THEN <<y2, y1>>
    ELSE IF FGt(y2, y1) THEN <<y1, y2>>
    ELSE <<Zero(0), Zero(0)>>

\* The second loop of the constructor.
RECURSIVE InverseLoop(_, _, _, _, _)
InverseInsert(fn, x2, hi, inc, map, key, line) ==
    InverseLoop(fn, x2, hi, inc,
                MapInsert(map, Entry(key[1], key[2], line.slope, line.yint)))

InverseSlice(fn, x2, hi, inc, map, tempPt1, tempPt2) ==
    InverseInsert(fn, x2, hi, inc, map,
                  InverseKey(tempPt1.y, tempPt2.y),
                  InverseLine(tempPt1, tempPt2))

InverseStep(fn, x, x2, hi, inc, map) ==
    IF FLe(x2, x) THEN [done |-> FALSE, map |-> <<>>]
    ELSE InverseSlice(fn, x2, hi, inc, map,
                      Point(x, Apply(fn, x)), Point(x2, Apply(fn, x2)))

InverseLoop(fn, x, hi, inc, map) ==
    IF ~FLt(x, hi) THEN [done |-> TRUE, map |-> map]
    ELSE InverseStep(fn, x, FAdd(x, inc), hi, inc, map)

Constructed(fwd, inv) ==
    IF fwd.done /\ inv.done
    THEN [done |-> TRUE, fx |-> fwd.map, fy |-> inv.map]
    ELSE [done |-> FALSE, fx |-> <<>>, fy |-> <<>>]

ConstructorLoops(fn, iv, inc) ==
    Constructed(ForwardLoop(fn, iv[1], iv[2], inc, <<>>),
                InverseLoop(fn, iv[1], iv[2], inc, <<>>))

\* FunctionToPiecewise::FunctionToPiecewise
Constructor(fn, n, iv) == ConstructorLoops(fn, iv, xIncrement(iv, n))

\* The first hit in key order; 0 is end().
FirstOf(hits) == IF hits = {} THEN 0 ELSE CHOOSE i \in hits : \A j \in hits : i <= j

\* Mutant of FindIf: the upper end of a range counts as inside it.
FindIfClosed(map, v) ==
    FirstOf({i \in 1..Len(map) : FGe(v, map[i].first) /\ FLe(v, map[i].second)})

\* std::find_if with the predicate of xToy and yTox: the first entry, in key
\* order, whose key range contains v.
FindIf(map, v) ==
    FirstOf({i \in 1..Len(map) : FGe(v, map[i].first) /\ FLt(v, map[i].second)})

NoValue == [c |-> "none", s |-> 0, e |-> 0, m |-> 0]
\* via says where the caller took the argument from: "value" (a number of
\* its own), "function" (function(from)) or "result" (xToy(from)).
NoCall == [op |-> "none", arg |-> NoValue, err |-> FALSE, ret |-> NoValue,
           via |-> "value", from |-> NoValue]

\* The rest of xToy and yTox once find_if has returned iter: MBED_ERROR when
\* iter is end(), the value of the segment's line otherwise.
Lookup(map, v, i) ==
    IF i = 0 THEN [err |-> TRUE, ret |-> NoValue]
    ELSE [err |-> FALSE, ret |-> evalLinearFunction(v, map[i])]

\* FunctionToPiecewise::xToy
xToy(map, x) == Lookup(map, x, FindIf(map, x))

\* FunctionToPiecewise::yTox
yTox(map, y) == Lookup(map, y, FindIf(map, y))

\* ------------------------------------------------------------- actions

\* The halves from -2 to MaxEnd + 1.
QueryGrid == {FDiv(IntToFloat(k), IntToFloat(2)) : k \in -4..(2 * MaxEnd + 2)}

Firsts(map) == {map[i].first : i \in 1..Len(map)}
Seconds(map) == {map[i].second : i \in 1..Len(map)}

\* Arguments the caller passes to xToy: the grid and the break points.
QueryXs == QueryGrid \cup Firsts(f_of_x_fns) \cup Seconds(f_of_x_fns)

\* Arguments the caller passes to yTox: the grid and the break points of
\* the inverse table.
QueryYs == QueryGrid \cup Firsts(f_of_y_fns) \cup Seconds(f_of_y_fns)

Init ==
    /\ pc = "new"
    /\ originalFunciton \in Functions
    /\ nSegments \in -1..MaxSegments
    /\ interval \in EndPoints \X EndPoints
    /\ f_of_x_fns = <<>>
    /\ f_of_y_fns = <<>>
    /\ call = NoCall

Built(r) ==
    /\ pc' = IF r.done THEN "ready" ELSE "diverged"
    /\ f_of_x_fns' = r.fx
    /\ f_of_y_fns' = r.fy
    /\ UNCHANGED <<originalFunciton, nSegments, interval, call>>

\* The constructor runs; it either completes or never returns.
Construct ==
    /\ pc = "new"
    /\ Built(Constructor(originalFunciton, nSegments, interval))

\* A query returns r, or ends in MBED_ERROR, which halts the system.
Returned(op, arg, via, from, r) ==
    /\ call' = [op |-> op, arg |-> arg, err |-> r.err, ret |-> r.ret,
                via |-> via, from |-> from]
    /\ pc' = IF r.err THEN "halted" ELSE "ready"
    /\ UNCHANGED <<originalFunciton, nSegments, interval, f_of_x_fns, f_of_y_fns>>

\* xToy(x)
CallXToY ==
    /\ pc = "ready"
    /\ call = NoCall
    /\ \E x \in QueryXs : Returned("xToy", x, "value", NoValue, xToy(f_of_x_fns, x))

\* yTox(y)
CallYToX ==
    /\ pc = "ready"
    /\ call = NoCall
    /\ \E y \in QueryYs : Returned("yTox", y, "value", NoValue, yTox(f_of_y_fns, y))

YToXOf(y, via, x) == Returned("yTox", y, via, x, yTox(f_of_y_fns, y))

\* yTox(function(x)): the caller asks where the source function takes the
\* value it takes at x.
CallYToXOfFunction ==
    /\ pc = "ready"
    /\ call = NoCall
    /\ \E x \in QueryXs : YToXOf(Apply(originalFunciton, x), "function", x)

\* yTox(xToy(x)): the caller passes on what xToy has just returned.
CallYToXOfResult ==
    /\ pc = "ready"
    /\ call.op = "xToy"
    /\ ~call.err
    /\ YToXOf(call.ret, "result", call.arg)

\* The caller is done with the value a query returned.
DropResult ==
    /\ pc = "ready"
    /\ call # NoCall
    /\ call' = NoCall
    /\ UNCHANGED <<pc, originalFunciton, nSegments, interval, f_of_x_fns, f_of_y_fns>>

Next ==
    \/ Construct
    \/ CallXToY
    \/ CallYToX
    \/ CallYToXOfFunction
    \/ CallYToXOfResult
    \/ DropResult

Spec == Init /\ [][Next]_vars

\* ------------------------------------------------------------- claims

Lo == interval[1]
Hi == interval[2]

\* The constructor has returned (the object exists, whatever happened since).
Exists == pc \in {"ready", "halted"}

\* The construction contract: segments >= 1 and lo < hi.
ValidArgs == nSegments >= 1 /\ FLt(Lo, Hi)

InDomain(x) == FLe(Lo, x) /\ FLt(x, Hi)
StrictlyInside(x) == FLt(Lo, x) /\ FLt(x, Hi)

\* v lies in the half-open key range of table entry en.
InRange(v, en) == FLe(en.first, v) /\ FLt(v, en.second)
Hits(map, v) == {i \in 1..Len(map) : InRange(v, map[i])}

\* Two half-open key ranges have no value in common.
Disjoint(a, b) == FLe(a.second, b.first) \/ FLe(b.second, a.first)

IsLinear(fn) == fn.k \in {"Func1", "lin"}
IsStrictlyLinear(fn) == fn.k = "Func1" \/ (fn.k = "lin" /\ fn.m # 0)

\* f(x) = m*x with m a power of two: sampling, slope and intercept are then
\* computed without rounding.
IsPowerOfTwoSlope(fn) ==
    fn.k = "Func1" \/ (fn.k = "lin" /\ fn.b = 0 /\ fn.m \in {-8, -4, -2, -1, 1, 2, 4, 8})
IsConstant(fn) == fn.k = "lin" /\ fn.m = 0

\* The samples of the source function at the break points of the forward
\* table rise strictly, or fall strictly.
SamplesIncrease ==
    \A i \in 1..Len(f_of_x_fns) :
        FLt(Apply(originalFunciton, f_of_x_fns[i].first),
            Apply(originalFunciton, f_of_x_fns[i].second))
SamplesDecrease ==
    \A i \in 1..Len(f_of_x_fns) :
        FGt(Apply(originalFunciton, f_of_x_fns[i].first),
            Apply(originalFunciton, f_of_x_fns[i].second))
SamplesStrictlyMonotonic == SamplesIncrease \/ SamplesDecrease

\* The forward key ranges tile [lo, hi): they start at lo, each is non-empty
\* and ends where the next starts, and the last ends at hi.
TilesInterval(map) ==
    /\ Len(map) >= 1
    /\ FEq(map[1].first, Lo)
    /\ \A i \in 1..Len(map) : FLt(map[i].first, map[i].second)
    /\ \A i \in 1..(Len(map) - 1) : FEq(map[i].second, map[i + 1].first)
    /\ FEq(map[Len(map)].second, Hi)

\* C1 (as claimed): after a valid construction the forward ranges are
\* pairwise disjoint and their union is exactly [lo, hi), and every x with
\* lo <= x < hi lies in exactly one of them.
C1_DomainCoverage ==
    (Exists /\ ValidArgs) =>
        /\ TilesInterval(f_of_x_fns)
        /\ (call.op = "xToy" /\ InDomain(call.arg)) =>
               Cardinality(Hits(f_of_x_fns, call.arg)) = 1

\* C2 (as claimed): for every linear source function m*x + b, xToy(x)
\* returns exactly function(x) for every x of the construction interval.
C2_ForwardLinearExact ==
    (ValidArgs /\ IsLinear(originalFunciton) /\ call.op = "xToy"
       /\ InDomain(call.arg)) =>
        (~call.err /\ FEq(call.ret, Apply(originalFunciton, call.arg)))

\* C2 (amended): for f(x) = m*x with m a power of two, and for a constant
\* f, xToy(x) returns exactly function(x) for every x with lo <= x < hi.
C2_ForwardExactWithoutRounding ==
    (ValidArgs /\ (IsPowerOfTwoSlope(originalFunciton) \/ IsConstant(originalFunciton))
       /\ call.op = "xToy" /\ InDomain(call.arg)) =>
        (~call.err /\ FEq(call.ret, Apply(originalFunciton, call.arg)))

\* xToy has returned twice its argument in the second of three segments of
\* f(x) = 2x.
C2_Witness ==
    /\ originalFunciton.k = "Func1"
    /\ nSegments = 3
    /\ Len(f_of_x_fns) >= 3
    /\ call.op = "xToy"
    /\ ~call.err
    /\ FLe(f_of_x_fns[2].first, call.arg)
    /\ FLt(call.arg, f_of_x_fns[2].second)
    /\ FEq(call.ret, FMul(IntToFloat(2), call.arg))

FAbs(a) == [a EXCEPT !.s = 0]

\* a and b are finite and differ by at most 2^-16.
Close(a, b) ==
    IsFin(a) /\ IsFin(b) /\ FLe(FAbs(FSub(a, b)), Fin(0, -39, 2^23))

\* C3 (as claimed, with the tolerance the specification allows): for every
\* strictly linear source function, rising or falling, yTox(function(x))
\* does not fail and returns x, up to rounding, for every x of the
\* construction interval, x = lo included.
C3_InverseLinearExact ==
    (ValidArgs /\ IsStrictlyLinear(originalFunciton) /\ call.op = "yTox"
       /\ call.via = "function" /\ InDomain(call.from)) =>
        (~call.err /\ Close(call.ret, call.from))

\* C4 (as claimed): for any source function and any x strictly inside the
\* interval, yTox(xToy(x)) returns x.
C4_RoundTrip ==
    (ValidArgs /\ call.op = "yTox" /\ call.via = "result"
       /\ StrictlyInside(call.from)) =>
        (~call.err /\ FEq(call.ret, call.from))

\* C4 (amended): for f(x) = m*x with m a power of two, rising or falling,
\* and any x strictly inside the interval, yTox(xToy(x)) returns x.
C4_RoundTripWithoutRounding ==
    (ValidArgs /\ IsPowerOfTwoSlope(originalFunciton) /\ call.op = "yTox"
       /\ call.via = "result" /\ StrictlyInside(call.from)) =>
        (~call.err /\ FEq(call.ret, call.from))

\* yTox(xToy(x)) has returned x for a falling function and an x that is
\* the break point between two segments.
C4_Witness ==
    /\ originalFunciton.k = "lin"
    /\ originalFunciton.m = -2
    /\ originalFunciton.b = 0
    /\ Len(f_of_x_fns) >= 2
    /\ call.op = "yTox"
    /\ call.via = "result"
    /\ ~call.err
    /\ call.from = f_of_x_fns[2].first
    /\ StrictlyInside(call.from)
    /\ FEq(call.ret, call.from)

\* C5 (as claimed): after a valid construction xToy(x) fails, and returns
\* nothing, for x = hi, for every x > hi and for every x < lo.
C5_BoundaryRejection ==
    (ValidArgs /\ call.op = "xToy" /\ (FGe(call.arg, Hi) \/ FLt(call.arg, Lo))) =>
        (call.err /\ call.ret = NoValue)

\* C6: yTox(y) fails, and returns nothing, exactly when no segment of the
\* inverse table has y in its key range; it returns a value only when
\* some stored segment's range contains y.
C6_InverseOutOfRange ==
    (call.op = "yTox") =>
        /\ call.err <=> (Hits(f_of_y_fns, call.arg) = {})
        /\ call.err => (call.ret = NoValue /\ pc = "halted")
        /\ ~call.err => call.ret # NoValue

\* yTox has failed on the upper end of the highest of at least two ranges.
C6_Witness ==
    /\ ValidArgs
    /\ Len(f_of_y_fns) >= 2
    /\ call.op = "yTox"
    /\ call.err
    /\ call.arg = f_of_y_fns[Len(f_of_y_fns)].second

\* C7 (as claimed): with a segment count < 1 or an interval with lo >= hi
\* the constructor ends in an error: it neither completes with some table
\* nor runs forever.
C7_InvalidConstructionRejected ==
    (nSegments < 1 \/ ~FLt(Lo, Hi)) => (pc # "ready" /\ pc # "diverged")

\* C8 (as claimed): a query, failing or not, leaves both tables as they
\* are, returns control to the caller, and reports a failure without a
\* value.
C8_QueryErrorsRecoverable ==
    [][(pc = "ready") =>
          /\ f_of_x_fns' = f_of_x_fns
          /\ f_of_y_fns' = f_of_y_fns
          /\ pc' = "ready"
          /\ call'.err => call'.ret = NoValue]_vars

\* Entry en of the inverse table is the inversion (1/m, -b/m) of a forward
\* segment with slope m = 0.
FromFlatSegment(en) ==
    \E i \in 1..Len(f_of_x_fns) :
        /\ IsZero(f_of_x_fns[i].slope)
        /\ en.slope = FDiv(IntToFloat(1), f_of_x_fns[i].slope)
        /\ en.yint = FDiv(FMul(IntToFloat(-1), f_of_x_fns[i].yint),
                          f_of_x_fns[i].slope)

\* C9 (as claimed): the inverse table never holds a segment derived from a
\* forward segment of slope 0, and every key it holds has lo < hi.
C9_FlatSegmentGuard ==
    (Exists /\ ValidArgs) =>
        \A j \in 1..Len(f_of_y_fns) :
            /\ ~FromFlatSegment(f_of_y_fns[j])
            /\ FLt(f_of_y_fns[j].first, f_of_y_fns[j].second)

\* The inverse table has a segment for every forward segment, its key
\* ranges are non-empty and pairwise disjoint, and no queried y lies in two.
InverseRangesUnique ==
    /\ Len(f_of_y_fns) = Len(f_of_x_fns)
    /\ \A i \in 1..Len(f_of_y_fns) : FLt(f_of_y_fns[i].first, f_of_y_fns[i].second)
    /\ \A i, j \in 1..Len(f_of_y_fns) :
           i # j => Disjoint(f_of_y_fns[i], f_of_y_fns[j])
    /\ (call.op = "yTox") => Cardinality(Hits(f_of_y_fns, call.arg)) <= 1

NoFlatSlice == \A i \in 1..Len(f_of_x_fns) : ~IsZero(f_of_x_fns[i].slope)

\* C10 (as claimed): for any source function, monotonic or not, the
\* inverse table holds one segment per forward segment with pairwise
\* disjoint ranges.  Stated for the tables without a flat slice, whose
\* inverse keys are all made of the two samples (flat slices are the
\* subject of C9).
C10_InverseRangesUnique ==
    (Exists /\ ValidArgs /\ NoFlatSlice) => InverseRangesUnique

\* C10 (amended): when the samples at the break points rise strictly or
\* fall strictly, the inverse table holds one segment per forward segment
\* with non-empty, pairwise disjoint ranges.
C10_MonotonicInverseRangesUnique ==
    (Exists /\ ValidArgs /\ SamplesStrictlyMonotonic) => InverseRangesUnique

\* An inverse table of three segments built from strictly falling samples.
C10_Witness ==
    /\ pc = "ready"
    /\ ValidArgs
    /\ Len(f_of_x_fns) >= 3
    /\ SamplesDecrease
    /\ Len(f_of_y_fns) = Len(f_of_x_fns)

=============================================================================
